---- MODULE Spec2Model ----
(***************************************************************************)
(* Model of the open.go.kr document-retrieval client                       *)
(* (src/src/client.py, class OpenGoKrClient): the cached XSRF token, the   *)
(* session cookie jar and header, and the paginated fetch loop with its    *)
(* per-page authorization retry.  Every HTTP round trip is one step; the   *)
(* server's answer is the step's input.  Spec runs the client, ParseSpec   *)
(* runs _parse_response alone, MainSpec runs main (src/src/main.py) with   *)
(* each fetch_documents and notifier call as one step.  NormalizeSpec,     *)
(* EnvelopeSpec, RequestSpec, SplitSpec and DateSpec run one function      *)
(* each: the item loop of _parse_response, the unwrapping of the JSON      *)
(* body, _build_request_params, _split_message (src/src/notifier.py) and   *)
(* get_target_date_range.  FixedTotalSpec runs the client against a server *)
(* that reports one total on every page, SendSpec runs the notifier's send *)
(* loop with each sendMessage request as one step.                         *)
(***************************************************************************)
EXTENDS Integers, Sequences, FiniteSets, TLC

(* ---------------------------------------------------------------- bounds *)
MaxPages == 2        \* page numbers requested in one call are capped here
MaxPageDocs == 2     \* longest rtnList the modelled server sends
MaxCalls == 2        \* fetch_documents calls made on the one client
MaxAgencies == 2     \* longest agency list a configuration file holds
MaxLines == 3        \* most lines of a message handed to _split_message
MaxDay == 24         \* latest day number the clock shows
MaxTotal == MaxPageDocs + 1   \* largest small rtnTotal the modelled server reports

(* ------------------------------------------------------ program constants *)
PAGE_SIZE == 10
max_retries == 1
MAX_MESSAGE_LENGTH == 4096

None == "None"
Tokens == {"tokA", "tokB"}

(* ------------------------------------------------------- server responses *)
\* What the token endpoint (PAGE_URL) can answer: a 2xx or a non-2xx reply,
\* each with or without a Set-Cookie for XSRF-TOKEN, or no reply at all.
TokenResponses ==
    [kind : {"ok", "http"}, cookie : Tokens \cup {None}]
      \cup {[kind |-> "conn", cookie |-> None]}

\* rtnTotal as found in the JSON body: missing, null, an integer, or a string
\* that is no number ("text").
RawTotals ==
    {[t |-> "absent", v |-> 0], [t |-> "null", v |-> 0], [t |-> "text", v |-> 0]}
      \cup [t : {"int"}, v : (0..MaxTotal) \cup {PAGE_SIZE}]

\* Every shape of rtnTotal: also negative integers, numeric strings ("str",
\* v the number written) and the empty string.
AllRawTotals ==
    RawTotals
      \cup [t : {"int"}, v : (0 - MaxTotal)..MaxTotal]
      \cup [t : {"str"}, v : (0 - MaxTotal)..MaxTotal]
      \cup {[t |-> "empty", v |-> 0]}

\* The raw items of one page.  The code never looks inside an item to decide
\* what to do next, so the k-th item the server sends in a call is item k.
Items(first, n) == [i \in 1..n |-> first + i - 1]

OkResponses(first) ==
    {[kind |-> "ok", status |-> 200, hasList |-> h, list |-> Items(first, n), total |-> t] :
        h \in BOOLEAN, n \in 0..MaxPageDocs, t \in RawTotals}

\* A request that does not end in a parsed body: a non-2xx status, a body
\* that is no JSON, a refused connection, a timeout while reading the answer
\* ("timeout"), a timeout while connecting ("connect_timeout"), or another
\* transport failure.
FailedResponses ==
    {[kind |-> "http", status |-> s, hasList |-> FALSE, list |-> <<>>,
      total |-> [t |-> "absent", v |-> 0]] : s \in {401, 403, 500}}
      \cup {[kind |-> k, status |-> 0, hasList |-> FALSE, list |-> <<>>,
             total |-> [t |-> "absent", v |-> 0]] :
               k \in {"badjson", "conn", "timeout", "connect_timeout", "other"}}

\* A body with rtnList missing (or null) carries no items.
DocResponses(first) ==
    {r \in OkResponses(first) : r.hasList \/ r.list = <<>>} \cup FailedResponses

(* ------------------------------------------------------------ pure helpers *)
\* Document built from one raw item (client.py 179-185).
Document(item) == [item |-> item]

\* int(total_count or 0), with total_count = data.get("rtnTotal", 0): the
\* value when int() returns one.
ParseTotal(raw) == IF raw.t \in {"int", "str"} THEN raw.v ELSE 0

\* int(total_count or 0) raises ValueError: a non-empty string that is no number.
TotalRaises(raw) == raw.t = "text"

\* Mutant: an empty page keeps the total the server reported.
ParseResponseKeepsTotal(data) ==
    [documents |-> [i \in 1..Len(data.list) |-> Document(data.list[i])],
     total_count |-> ParseTotal(data.total),
     raises |-> (data.list # <<>> /\ TotalRaises(data.total))]

\* _parse_response, docs being the Documents its loop builds from
\* data.list: (documents, total_count), or the ValueError of line 187
\* (raises), which is no OpenGoKrError.
ParseResult(data, docs) ==
    IF ~data.hasList \/ data.list = <<>>
    THEN [documents |-> <<>>, total_count |-> 0, raises |-> FALSE]
    ELSE [documents |-> docs,
          total_count |-> ParseTotal(data.total),
          raises |-> TotalRaises(data.total)]

\* _parse_response on numbered items.
ParseResponse(data) ==
    ParseResult(data, [i \in 1..Len(data.list) |-> Document(data.list[i])])

(* ------------------------------------------- the fields of one Document *)
\* A string is the sequence of its characters; "" is <<>>.  A key of a raw
\* item is absent (<<>>) or present with a string (<<s>>).
DETAIL_URL_BASE == "https://www.open.go.kr/othicInfo/infoList/infoListDetl.do"

TS14 == <<"2", "0", "2", "5", "1", "2", "2", "7", "1", "2", "0", "0", "0", "0">>
TS8 == SubSeq(TS14, 1, 8)
TS7 == SubSeq(TS14, 1, 7)

Opt(S) == {<<>>} \cup {<<x>> : x \in S}

\* The raw items of rtnList, key by key.
RawItems ==
    [INFO_SJ : Opt({<<>>, <<"T">>}),
     PRDCTN_DT : Opt({<<>>, TS7, TS8, TS14}),
     PROC_INSTT_NM : Opt({<<"A">>}),
     PRDCTN_INSTT_REGIST_NO : Opt({<<>>, <<"R">>}),
     INSTT_SE_CD : Opt({<<>>, <<"S">>})]

\* The items that longer lists are made of.
ListItems ==
    {it \in RawItems :
        /\ it.INFO_SJ \in {<<>>, << <<"T">> >>}
        /\ it.PRDCTN_DT \in {<<>>, <<TS14>>}
        /\ it.PROC_INSTT_NM # <<>>
        /\ it.PRDCTN_INSTT_REGIST_NO \in {<<>>, << <<"R">> >>}
        /\ it.INSTT_SE_CD = << <<"S">> >>}

\* item.get(key, "")
Get(item, key) == IF item[key] = <<>> THEN <<>> ELSE item[key][1]

\* Mutant: a timestamp of exactly 8 characters is taken for too short.
FormatDateOver8(raw_date) ==
    IF raw_date # <<>> /\ Len(raw_date) > 8
    THEN SubSeq(raw_date, 1, 4) \o <<"-">> \o SubSeq(raw_date, 5, 6)
           \o <<"-">> \o SubSeq(raw_date, 7, 8)
    ELSE <<>>

\* formatted_date (client.py 166-170).
FormatDate(raw_date) ==
    IF raw_date # <<>> /\ Len(raw_date) >= 8
    THEN SubSeq(raw_date, 1, 4) \o <<"-">> \o SubSeq(raw_date, 5, 6)
           \o <<"-">> \o SubSeq(raw_date, 7, 8)
    ELSE <<>>

\* The f-string of client.py 144-147.
DetailUrl(reg_no, prod_dt, inst_se_cd) ==
    <<DETAIL_URL_BASE, "?", "prdnNstRgstNo", "=">> \o reg_no
      \o <<"&", "prdnDt", "=">> \o prod_dt
      \o <<"&", "nstSeCd", "=">> \o inst_se_cd

\* Mutant: one key that is present is enough for a URL.
BuildDetailUrlAnyKey(reg_no, prod_dt, inst_se_cd) ==
    IF reg_no = <<>> /\ prod_dt = <<>> /\ inst_se_cd = <<>>
    THEN <<>>
    ELSE DetailUrl(reg_no, prod_dt, inst_se_cd)

\* _build_detail_url (client.py 128-147).
BuildDetailUrl(reg_no, prod_dt, inst_se_cd) ==
    IF ~(reg_no # <<>> /\ prod_dt # <<>> /\ inst_se_cd # <<>>)
    THEN <<>>
    ELSE DetailUrl(reg_no, prod_dt, inst_se_cd)

\* Mutant: the title is taken from the agency name.
NormalizeItemAgencyAsTitle(item) ==
    [title |-> Get(item, "PROC_INSTT_NM"),
     date |-> FormatDate(Get(item, "PRDCTN_DT")),
     url |-> BuildDetailUrl(Get(item, "PRDCTN_INSTT_REGIST_NO"),
                            Get(item, "PRDCTN_DT"), Get(item, "INSTT_SE_CD")),
     agency_name |-> Get(item, "PROC_INSTT_NM")]

\* The Document of one raw item (client.py 165-185).
NormalizeItem(item) ==
    [title |-> Get(item, "INFO_SJ"),
     date |-> FormatDate(Get(item, "PRDCTN_DT")),
     url |-> BuildDetailUrl(Get(item, "PRDCTN_INSTT_REGIST_NO"),
                            Get(item, "PRDCTN_DT"), Get(item, "INSTT_SE_CD")),
     agency_name |-> Get(item, "PROC_INSTT_NM")]

\* _parse_response on items with their keys.
ParseResponseItems(data) ==
    ParseResult(data, [i \in 1..Len(data.list) |-> NormalizeItem(data.list[i])])

\* Mutant: the new page is put in front of the aggregate.
ExtendInFront(all, docs) == docs \o all

\* all_documents.extend(documents)
Extend(all, docs) == all \o docs

\* Mutant: the loop goes on while the aggregate only equals the total.
StopRuleStrict(all, total, docs) == Len(all) > total \/ docs = <<>>

\* Mutant: only an empty page stops the loop.
StopRuleEmptyOnly(all, total, docs) == docs = <<>>

\* "if len(all_documents) >= total_count or not documents: break"
StopRule(all, total, docs) == Len(all) >= total \/ docs = <<>>

\* Mutant: the token is acquired on every ensure.
EnsureAlways(tok) == TRUE

\* "if not self._xsrf_token" in _ensure_xsrf_token
EnsureNeeded(tok) == tok = None

\* Mutant: every HTTP error status is taken for an authorization failure.
IsAuthFailureAnyHttp(r) == r.kind = "http"

\* "e.response.status_code in (401, 403) and attempt < max_retries"
IsAuthFailure(r) == r.kind = "http" /\ r.status \in {401, 403}

\* Mutant: off by one, the retried request may be retried again.
RetryAllowedAgain(att) == att <= max_retries

RetryAllowed(att) == att < max_retries

\* The session stores the cookies of every reply it receives.
JarAfter(jar, tr) == IF tr.cookie # None THEN tr.cookie ELSE jar

\* _acquire_xsrf_token: the token, or the error it raises.
AcquireXsrfToken(jar, tr) ==
    IF tr.kind # "ok"
    THEN [ok |-> FALSE, token |-> None, error |-> "Failed to acquire XSRF token"]
    ELSE IF JarAfter(jar, tr) = None
         THEN [ok |-> FALSE, token |-> None,
               error |-> "XSRF-TOKEN not found in response cookies"]
         ELSE [ok |-> TRUE, token |-> JarAfter(jar, tr), error |-> ""]

\* Mutant: the 401/403 handler leaves the cached token in place.
InvalidateNot(tok) == tok

\* "self._xsrf_token = None" of the 401/403 handler
Invalidate(tok) == None

\* Mutant: the header keeps what it held.
HeaderKept(hdr, tok) == hdr

\* self.session.headers["x-xsrf-token"] = self._xsrf_token
HeaderAfter(hdr, tok) == tok

\* The classes the exception of a failed request is an instance of, as the
\* except clauses of fetch_documents test them.  requests raises ReadTimeout
\* (a Timeout) when the answer is late and ConnectTimeout, which derives
\* from both ConnectionError and Timeout, when the connection is.
ExceptionClasses(kind) ==
    CASE kind = "badjson" -> {"ValueError"}
      [] kind = "http" -> {"HTTPError", "RequestException"}
      [] kind = "conn" -> {"ConnectionError", "RequestException"}
      [] kind = "timeout" -> {"Timeout", "RequestException"}
      [] kind = "connect_timeout" -> {"ConnectionError", "Timeout", "RequestException"}
      [] OTHER -> {"RequestException"}

\* The OpenGoKrError message raised for a failed document-list request: the
\* first except clause, in the order written, that the exception matches.
RequestError(r) ==
    IF "ValueError" \in ExceptionClasses(r.kind) THEN "Failed to parse JSON response"
    ELSE IF "HTTPError" \in ExceptionClasses(r.kind) THEN "HTTP error"
    ELSE IF "ConnectionError" \in ExceptionClasses(r.kind) THEN "Network connection error"
    ELSE IF "Timeout" \in ExceptionClasses(r.kind) THEN "Request timeout"
    ELSE "Request failed"

(* ------------------------------------------------------------------ state *)
VARIABLES
    xsrf_token,     \* self._xsrf_token
    header,         \* self.session.headers["x-xsrf-token"] (None: not set)
    cookies,        \* the XSRF-TOKEN cookie of self.session.cookies
    pc,             \* where the current fetch_documents call stands
    page,           \* local: page
    attempt,        \* local: attempt
    all_documents,  \* local: all_documents (the result once pc = "returned")
    documents,      \* local: documents of the last parsed page
    total_count,    \* local: total_count of the last parsed page
    error,          \* message of the OpenGoKrError raised (pc = "raised")
    reqPages,       \* this call: viewPage of every document-list request, in order
    served,         \* this call: the items of the pages received, in order
    lastDoc,        \* this call: the answer to its latest document-list request
    ensureResp,     \* this call: the token endpoint's answer to the first ensure
    refreshes,      \* this call: token requests sent after a 401/403
    calls,          \* fetch_documents calls started so far
    tokenReqs,      \* token-acquisition requests sent since construction
    firstAcq,       \* outcome of the first token-acquisition request
    authSeen,       \* some document-list request was answered 401/403
    lastAcq,        \* the latest token-acquisition answer and its outcome
    arg,            \* pure functions: the input
    res,            \* pure functions: <<result>> once the function was called
    m_pc,           \* main: where the run stands
    input,          \* main: argv, files, environment, clock
    start_date,     \* main: local start_date
    end_date,       \* main: local end_date
    agencies,       \* main: local agencies
    idx,            \* main: position of the agency loop
    m_docs,         \* main: local documents of the agency being processed
    has_errors,     \* main: local has_errors
    ret,            \* main: <<value>> once main returned
    loaded,         \* main: <<path>> once load_agencies was called with it
    fetched,        \* main: the fetch_documents calls made, in order
    sends,          \* main: the notifier calls made, in order
    n_pc,           \* notifier: where the current send stands
    n_chunks,       \* notifier: local chunks of the send
    posted,         \* notifier: the sendMessage requests made, in order
    n_ret,          \* notifier: <<value>> once the send returned
    n_error         \* notifier: the exception that left the send ("": none)

clientVars == <<xsrf_token, header, cookies, pc, page, attempt, all_documents,
                documents, total_count, error, reqPages, served, lastDoc,
                ensureResp, refreshes, calls, tokenReqs, firstAcq, authSeen, lastAcq>>
pureVars == <<arg, res>>
mainVars == <<m_pc, input, start_date, end_date, agencies, idx, m_docs,
              has_errors, ret, loaded, fetched, sends>>
notifyVars == <<n_pc, n_chunks, posted, n_ret, n_error>>
vars == <<clientVars, pureVars, mainVars, notifyVars>>

session == <<xsrf_token, header, cookies>>
locals == <<page, attempt, all_documents, documents, total_count>>
callHist == <<reqPages, served, lastDoc>>

\* Placeholders of the history variables before the first answer.
NoDoc == [kind |-> "none", status |-> 0, hasList |-> FALSE, list |-> <<>>,
          total |-> [t |-> "absent", v |-> 0]]
NoTok == [kind |-> "none", cookie |-> None]

\* The pure-function and main variables while they are not in use.
PureIdle == arg = None /\ res = <<>>
MainIdle ==
    /\ m_pc = "idle"
    /\ input = None
    /\ start_date = None
    /\ end_date = None
    /\ agencies = <<>>
    /\ idx = 0
    /\ m_docs = <<>>
    /\ has_errors = FALSE
    /\ ret = <<>>
    /\ loaded = <<>>
    /\ fetched = <<>>
    /\ sends = <<>>

\* The notifier variables while no send is modelled.
NotifierIdle ==
    /\ n_pc = "idle"
    /\ n_chunks = <<>>
    /\ posted = <<>>
    /\ n_ret = <<>>
    /\ n_error = ""

\* __init__: no token, no header, an empty cookie jar.
ClientInit ==
    /\ xsrf_token = None
    /\ header = None
    /\ cookies = None
    /\ pc = "idle"
    /\ page = 1
    /\ attempt = 0
    /\ all_documents = <<>>
    /\ documents = <<>>
    /\ total_count = 0
    /\ error = ""
    /\ reqPages = <<>>
    /\ served = <<>>
    /\ lastDoc = NoDoc
    /\ ensureResp = NoTok
    /\ refreshes = 0
    /\ calls = 0
    /\ tokenReqs = 0
    /\ firstAcq = "none"
    /\ authSeen = FALSE
    /\ lastAcq = [resp |-> NoTok, ok |-> FALSE]

Init == ClientInit /\ PureIdle /\ MainIdle /\ NotifierIdle

\* One token-acquisition round trip inside _ensure_xsrf_token, answered tr
\* (client.py 89-93 with 61-87).  On success control goes on at the
\* document-list request (page, a).
Acquire(tr, a) ==
    /\ cookies' = JarAfter(cookies, tr)
    /\ tokenReqs' = tokenReqs + 1
    /\ firstAcq' = IF firstAcq = "none"
                   THEN (IF AcquireXsrfToken(cookies, tr).ok THEN "ok" ELSE "failed")
                   ELSE firstAcq
    /\ lastAcq' = [resp |-> tr, ok |-> AcquireXsrfToken(cookies, tr).ok]
    /\ IF AcquireXsrfToken(cookies, tr).ok
       THEN /\ xsrf_token' = AcquireXsrfToken(cookies, tr).token
            /\ header' = HeaderAfter(header, AcquireXsrfToken(cookies, tr).token)
            /\ pc' = "request"
            /\ attempt' = a
            /\ error' = error
       ELSE /\ xsrf_token' = xsrf_token
            /\ header' = header
            /\ pc' = "raised"
            /\ error' = AcquireXsrfToken(cookies, tr).error
            /\ attempt' = attempt

\* fetch_documents is called (client.py 189-211).
FetchDocuments ==
    /\ pc \in {"idle", "returned", "raised", "crashed"}
    /\ calls < MaxCalls
    /\ calls' = calls + 1
    /\ pc' = "ensure"
    /\ page' = 1
    /\ attempt' = 0
    /\ all_documents' = <<>>
    /\ documents' = <<>>
    /\ total_count' = 0
    /\ error' = ""
    /\ reqPages' = <<>>
    /\ served' = <<>>
    /\ lastDoc' = NoDoc
    /\ ensureResp' = NoTok
    /\ refreshes' = 0
    /\ UNCHANGED <<session, tokenReqs, firstAcq, authSeen, lastAcq>>
    /\ UNCHANGED <<pureVars, mainVars, notifyVars>>

\* self._ensure_xsrf_token() before the page loop (client.py 214), token cached.
EnsureCached ==
    /\ pc = "ensure"
    /\ ~EnsureNeeded(xsrf_token)
    /\ pc' = "request"
    /\ UNCHANGED <<session, locals, error, callHist, ensureResp, refreshes,
                   calls, tokenReqs, firstAcq, authSeen, lastAcq>>
    /\ UNCHANGED <<pureVars, mainVars, notifyVars>>

\* self._ensure_xsrf_token() before the page loop, no token cached.
EnsureAcquire ==
    /\ pc = "ensure"
    /\ EnsureNeeded(xsrf_token)
    /\ \E tr \in TokenResponses :
        /\ Acquire(tr, 0)
        /\ ensureResp' = tr
    /\ UNCHANGED <<page, all_documents, documents, total_count, callHist,
                   refreshes, calls, authSeen>>
    /\ UNCHANGED <<pureVars, mainVars, notifyVars>>

\* History of one document-list request answered r.
Answered(r) ==
    /\ reqPages' = Append(reqPages, page)
    /\ lastDoc' = r
    /\ served' = IF r.kind = "ok" THEN served \o r.list ELSE served

\* One document-list request that is answered with a JSON body
\* (client.py 223-238, 256-263).
PageReceived ==
    /\ pc = "request"
    /\ page <= MaxPages
    /\ \E r \in DocResponses(Len(served) + 1) :
        /\ r.kind = "ok"
        /\ ~ParseResponse(r).raises
        /\ Answered(r)
        /\ documents' = ParseResponse(r).documents
        /\ total_count' = ParseResponse(r).total_count
        /\ all_documents' = Extend(all_documents, ParseResponse(r).documents)
        /\ IF StopRule(Extend(all_documents, ParseResponse(r).documents),
                       ParseResponse(r).total_count, ParseResponse(r).documents)
           THEN /\ pc' = "returned"
                /\ UNCHANGED <<page, attempt>>
           ELSE /\ pc' = "request"
                /\ page' = page + 1
                /\ attempt' = 0
    /\ UNCHANGED <<session, error, ensureResp, refreshes, calls, tokenReqs,
                   firstAcq, authSeen, lastAcq>>
    /\ UNCHANGED <<pureVars, mainVars, notifyVars>>

\* A page whose rtnTotal makes _parse_response raise ValueError
\* (client.py 256 with 187): the exception leaves fetch_documents as it is.
ParseCrashes ==
    /\ pc = "request"
    /\ page <= MaxPages
    /\ \E r \in DocResponses(Len(served) + 1) :
        /\ r.kind = "ok"
        /\ ParseResponse(r).raises
        /\ Answered(r)
    /\ pc' = "crashed"
    /\ error' = "ValueError"
    /\ UNCHANGED <<session, locals, ensureResp, refreshes, calls, tokenReqs,
                   firstAcq, authSeen, lastAcq>>
    /\ UNCHANGED <<pureVars, mainVars, notifyVars>>

\* A document-list request answered 401/403 while a retry is left
\* (client.py 242-245): the cached token is dropped.
AuthFailureRetry ==
    /\ pc = "request"
    /\ page <= MaxPages
    /\ RetryAllowed(attempt)
    /\ \E r \in DocResponses(Len(served) + 1) :
        /\ IsAuthFailure(r)
        /\ Answered(r)
    /\ xsrf_token' = Invalidate(xsrf_token)
    /\ authSeen' = TRUE
    /\ pc' = "refresh"
    /\ UNCHANGED <<header, cookies, locals, error, ensureResp, refreshes, calls,
                   tokenReqs, firstAcq, lastAcq>>
    /\ UNCHANGED <<pureVars, mainVars, notifyVars>>

\* self._ensure_xsrf_token() of the retry, then "continue" (client.py 246-247).
RefreshToken ==
    /\ pc = "refresh"
    /\ IF EnsureNeeded(xsrf_token)
       THEN /\ \E tr \in TokenResponses : Acquire(tr, attempt + 1)
            /\ refreshes' = refreshes + 1
       ELSE /\ pc' = "request"
            /\ attempt' = attempt + 1
            /\ UNCHANGED <<session, error, refreshes, tokenReqs, firstAcq, lastAcq>>
    /\ UNCHANGED <<page, all_documents, documents, total_count, callHist,
                   ensureResp, calls, authSeen>>
    /\ UNCHANGED <<pureVars, mainVars, notifyVars>>

\* A document-list request that fails for good (client.py 240-241, 248-254).
RequestFails ==
    /\ pc = "request"
    /\ page <= MaxPages
    /\ \E r \in DocResponses(Len(served) + 1) :
        /\ r.kind # "ok"
        /\ ~(IsAuthFailure(r) /\ RetryAllowed(attempt))
        /\ Answered(r)
        /\ error' = RequestError(r)
        /\ authSeen' = (authSeen \/ IsAuthFailure(r))
    /\ pc' = "raised"
    /\ UNCHANGED <<session, locals, ensureResp, refreshes, calls, tokenReqs,
                   firstAcq, lastAcq>>
    /\ UNCHANGED <<pureVars, mainVars, notifyVars>>

Next ==
    \/ FetchDocuments
    \/ EnsureCached
    \/ EnsureAcquire
    \/ PageReceived
    \/ ParseCrashes
    \/ AuthFailureRetry
    \/ RefreshToken
    \/ RequestFails

Spec == Init /\ [][Next]_vars

(* ------------------------------------------- _parse_response on its own *)
\* The bodies _parse_response may be handed: a list of 0..MaxPageDocs items
\* or none, and any shape of rtnTotal.
ParseInputs ==
    {[kind |-> "ok", status |-> 200, hasList |-> h, list |-> Items(1, n), total |-> t] :
        h \in BOOLEAN, n \in 0..MaxPageDocs, t \in AllRawTotals}

ParseInit ==
    /\ ClientInit
    /\ MainIdle
    /\ NotifierIdle
    /\ arg \in {d \in ParseInputs : d.hasList \/ d.list = <<>>}
    /\ res = <<>>

\* One call of _parse_response(data) (client.py 149-187).
CallParseResponse ==
    /\ res = <<>>
    /\ res' = <<ParseResponse(arg)>>
    /\ UNCHANGED <<arg, clientVars, mainVars, notifyVars>>

ParseNext == CallParseResponse

ParseSpec == ParseInit /\ [][ParseNext]_vars

(* ----------------------------- _parse_response on items with their keys *)
\* Bodies with a non-empty rtnList: any one raw item, or two to MaxPageDocs
\* of the list items.
NormalizeInputs ==
    {[kind |-> "ok", status |-> 200, hasList |-> TRUE, list |-> l, total |-> t] :
        l \in {<<it>> : it \in RawItems}
              \cup UNION {[1..n -> ListItems] : n \in 2..MaxPageDocs},
        t \in RawTotals}

NormalizeInit ==
    /\ ClientInit
    /\ MainIdle
    /\ NotifierIdle
    /\ arg \in NormalizeInputs
    /\ res = <<>>

\* One call of _parse_response(data) (client.py 149-187).
CallParseResponseItems ==
    /\ res = <<>>
    /\ res' = <<ParseResponseItems(arg)>>
    /\ UNCHANGED <<arg, clientVars, mainVars, notifyVars>>

NormalizeNext == CallParseResponseItems

NormalizeSpec == NormalizeInit /\ [][NormalizeNext]_vars

(* ------------------------------------------------- the response envelope *)
\* A JSON value: an object with the rtnList / rtnTotal it holds (data), or a
\* value of another type.
NoData == [kind |-> "none", status |-> 0, hasList |-> FALSE, list |-> <<>>,
           total |-> [t |-> "absent", v |-> 0]]

JsonObjects ==
    {[type |-> "object", data |-> d] : d \in {x \in ParseInputs : x.hasList \/ x.list = <<>>}}

JsonOthers == [type : {"null", "string", "number", "array"}, data : {NoData}]

\* The bodies response.json() returns: an object, with or without the key
\* "result" (<<>>: no such key), or any other JSON value.
JsonBodies ==
    {[type |-> o.type, data |-> o.data, result |-> r] :
        o \in JsonObjects, r \in Opt(JsonObjects \cup JsonOthers)}
      \cup {[type |-> o.type, data |-> o.data, result |-> <<>>] : o \in JsonOthers}

\* data = result.get("result", result) (client.py 236): which value is taken
\* (source), the value, and whether an AttributeError is raised, at 236 when
\* the body has no get, at 158 when the value taken has none.
Unwrap(body) ==
    IF body.type # "object"
    THEN [source |-> "none", value |-> [type |-> body.type, data |-> body.data],
          attr_error |-> TRUE]
    ELSE IF body.result = <<>>
    THEN [source |-> "body", value |-> [type |-> body.type, data |-> body.data],
          attr_error |-> FALSE]
    ELSE [source |-> "result", value |-> body.result[1],
          attr_error |-> body.result[1].type # "object"]

EnvelopeInit ==
    /\ ClientInit
    /\ MainIdle
    /\ NotifierIdle
    /\ arg \in JsonBodies
    /\ res = <<>>

\* A 2xx answer with the JSON body arg is unwrapped and handed to
\* _parse_response (client.py 234-238, 256).
UnwrapAndParse ==
    /\ res = <<>>
    /\ res' = <<[source |-> Unwrap(arg).source,
                 value |-> Unwrap(arg).value,
                 attr_error |-> Unwrap(arg).attr_error,
                 parsed |-> IF Unwrap(arg).attr_error
                            THEN <<>>
                            ELSE <<ParseResponse(Unwrap(arg).value.data)>>]>>
    /\ UNCHANGED <<arg, clientVars, mainVars, notifyVars>>

EnvelopeNext == UnwrapAndParse

EnvelopeSpec == EnvelopeInit /\ [][EnvelopeNext]_vars

(* ------------------------------------------------ the request parameters *)
D27 == <<"2", "0", "2", "5", "-", "1", "2", "-", "2", "7">>
D29 == <<"2", "0", "2", "5", "-", "1", "2", "-", "2", "9">>

\* The arguments of one fetch_documents call; end_date <<>> is None.
CallArgs ==
    [agency_code : {"1342000", "1741000"},
     agency_name : {"MOE", "MOIS"},
     start_date : {D27, D29},
     end_date : Opt({D27, D29})]

\* Mutant: the separators stay.
StripDashesNot(date) == date

\* date.replace("-", "")
StripDashes(date) == SelectSeq(date, LAMBDA c : c # "-")

\* "if end_date is None: end_date = start_date" (client.py 210-211)
EndDate(args) == IF args.end_date = <<>> THEN args.start_date ELSE args.end_date[1]

\* _build_request_params (client.py 95-126).
BuildRequestParams(agency_code, agency_name, start, end, p) ==
    [insttCd |-> agency_code,
     insttCdNm |-> agency_name,
     startDate |-> StripDashes(start),
     endDate |-> StripDashes(end),
     eduYn |-> "N",
     viewPage |-> ToString(p),
     rowPage |-> ToString(PAGE_SIZE),
     sort |-> "s"]

RequestInit ==
    /\ ClientInit
    /\ MainIdle
    /\ NotifierIdle
    /\ arg \in CallArgs
    /\ res = <<>>

\* The parameters of one more document-list request of the call
\* (client.py 223-225); res collects them.  Which page is asked for when is
\* what Spec models: here the loop may stand at any page.
BuildPageRequest ==
    /\ Len(res) <= MaxPages
    /\ \E p \in 1..MaxPages :
        res' = Append(res, BuildRequestParams(arg.agency_code, arg.agency_name,
                                              arg.start_date, EndDate(arg), p))
    /\ UNCHANGED <<arg, clientVars, mainVars, notifyVars>>

RequestNext == BuildPageRequest

RequestSpec == RequestInit /\ [][RequestNext]_vars

(* -------------------------------------------------------- _split_message *)
\* A message is the sequence of its lines (message.split("\n")), a line is
\* the number of its characters; no line begins or ends with white space.
LineLengths ==
    {0, 1, MAX_MESSAGE_LENGTH \div 2, MAX_MESSAGE_LENGTH - 1, MAX_MESSAGE_LENGTH,
     MAX_MESSAGE_LENGTH + 1}

Messages == UNION {[1..n -> LineLengths] : n \in 1..MaxLines}

RECURSIVE SumLines(_)
SumLines(ls) == IF ls = <<>> THEN 0 ELSE ls[1] + SumLines(Tail(ls))

\* len() of lines joined by "\n".
TextLen(ls) == IF ls = <<>> THEN 0 ELSE SumLines(ls) + Len(ls) - 1

\* len(current_chunk): every line of it is followed by "\n".
ChunkLen(ls) == SumLines(ls) + Len(ls)

\* str.strip() of lines joined by "\n": empty lines at both ends go.
RECURSIVE StripLeft(_)
StripLeft(ls) == IF ls # <<>> /\ ls[1] = 0 THEN StripLeft(Tail(ls)) ELSE ls

RECURSIVE StripRight(_)
StripRight(ls) ==
    IF ls # <<>> /\ ls[Len(ls)] = 0 THEN StripRight(SubSeq(ls, 1, Len(ls) - 1)) ELSE ls

Strip(ls) == StripRight(StripLeft(ls))

\* The loop of notifier.py 117-126 from line i on.
RECURSIVE SplitLoop(_, _, _, _)
SplitLoop(lines, i, chunks, current_chunk) ==
    IF i > Len(lines)
    THEN IF Strip(current_chunk) # <<>>
         THEN Append(chunks, Strip(current_chunk))
         ELSE chunks
    ELSE IF ChunkLen(current_chunk) + lines[i] + 1 > MAX_MESSAGE_LENGTH
         THEN SplitLoop(lines, i + 1,
                        IF current_chunk # <<>>
                        THEN Append(chunks, Strip(current_chunk))
                        ELSE chunks,
                        <<lines[i]>>)
         ELSE SplitLoop(lines, i + 1, chunks, Append(current_chunk, lines[i]))

\* _split_message (notifier.py 101-128): the chunks, each the lines it holds.
SplitMessage(message) ==
    IF TextLen(message) <= MAX_MESSAGE_LENGTH
    THEN <<message>>
    ELSE SplitLoop(message, 1, <<>>, <<>>)

SplitInit ==
    /\ ClientInit
    /\ MainIdle
    /\ NotifierIdle
    /\ arg \in Messages
    /\ res = <<>>

\* One call of _split_message(message).
CallSplitMessage ==
    /\ res = <<>>
    /\ res' = <<SplitMessage(arg)>>
    /\ UNCHANGED <<arg, clientVars, mainVars, notifyVars>>

SplitNext == CallSplitMessage

SplitSpec == SplitInit /\ [][SplitNext]_vars

(* ------------------------------------------------------------------ main *)
\* Dates are day numbers; a day number divisible by 7 is a Monday.  ISO date
\* strings order as the days do.
Dates == {1, 2}
Todays == {7, 8}

\* A command-line option that was not given.
NoArg == <<>>

\* What one run of main is given: argv (--start-date, --end-date, whether
\* --config names a path), which of the three candidate files exist, the
\* number of agencies the file lists, the two environment variables, the clock.
MainInputs ==
    [start_arg : {NoArg} \cup {<<d>> : d \in Dates},
     end_arg : {NoArg} \cup {<<d>> : d \in Dates},
     config_arg : BOOLEAN,
     arg_exists : BOOLEAN,
     script_exists : BOOLEAN,
     cwd_exists : BOOLEAN,
     n_agencies : 0..MaxAgencies,
     bot_token : {None, "", "set"},
     chat_id : {None, "", "set"},
     today : Todays]

\* Mutant: the three-day window is used on Sundays.
GetTargetDateRangeSunday(today) ==
    IF today % 7 = 6
    THEN <<today - 3, today - 1>>
    ELSE <<today - 1, today - 1>>

\* get_target_date_range (main.py 22-43).
GetTargetDateRange(today) ==
    IF today % 7 = 0
    THEN <<today - 3, today - 1>>
    ELSE <<today - 1, today - 1>>

\* main.py 100-104: (start_date, end_date).
DateRange(in) ==
    IF in.start_arg # NoArg
    THEN <<in.start_arg[1],
           IF in.end_arg # NoArg THEN in.end_arg[1] ELSE in.start_arg[1]>>
    ELSE GetTargetDateRange(in.today)

\* main.py 106-111: date_display.
DateDisplay(s, e) == IF s = e THEN <<s>> ELSE <<s, e>>

\* Mutant: the working-directory candidate is tried first.
FindConfigPathCwdFirst(in) ==
    IF in.cwd_exists THEN <<"cwd">>
    ELSE IF in.script_exists THEN <<"script">>
    ELSE <<>>

\* find_config_path (main.py 46-67): <<path>>, or <<>> for FileNotFoundError.
FindConfigPath(in) ==
    IF in.script_exists THEN <<"script">>
    ELSE IF in.cwd_exists THEN <<"cwd">>
    ELSE <<>>

\* config_path.exists()
PathExists(in, p) ==
    CASE p = "arg" -> in.arg_exists
      [] p = "script" -> in.script_exists
      [] OTHER -> in.cwd_exists

\* load_agencies (config.py 18-41); agency i is the i-th entry of the file.
LoadAgencies(in, p) ==
    IF ~PathExists(in, p)
    THEN [raises |-> TRUE, agencies |-> <<>>]
    ELSE [raises |-> FALSE, agencies |-> [i \in 1..in.n_agencies |-> i]]

\* Mutant: an empty agency list is not a reason to stop.
NoAgenciesNever(ags) == FALSE

\* "not agencies" (main.py 122)
NoAgencies(ags) == ags = <<>>

\* Mutant: only an unset variable counts as missing.
TruthyIfSet(x) == x # None

\* Python truth of an optional string: None and "" are false.
Truthy(x) == x \notin {None, ""}

\* "not bot_token or not chat_id" (main.py 130)
CredentialsMissing(in) == ~Truthy(in.bot_token) \/ ~Truthy(in.chat_id)

\* main.py 113-134: what main has done when it reaches line 136, or returned
\* before (ret = <<code>>).
Startup(in) ==
    LET cp == IF in.config_arg THEN <<"arg">> ELSE FindConfigPath(in)
    IN  IF cp = <<>>
        THEN [loaded |-> <<>>, agencies |-> <<>>, ret |-> <<1>>]
        ELSE IF LoadAgencies(in, cp[1]).raises
        THEN [loaded |-> cp, agencies |-> <<>>, ret |-> <<1>>]
        ELSE IF NoAgencies(LoadAgencies(in, cp[1]).agencies)
        THEN [loaded |-> cp, agencies |-> <<>>, ret |-> <<0>>]
        ELSE IF CredentialsMissing(in)
        THEN [loaded |-> cp, agencies |-> LoadAgencies(in, cp[1]).agencies, ret |-> <<1>>]
        ELSE [loaded |-> cp, agencies |-> LoadAgencies(in, cp[1]).agencies, ret |-> <<>>]

(* ------------------------------------------- get_target_date_range alone *)
\* datetime.now(): a day number and the seconds since midnight.
Clocks == [day : 4..MaxDay, time : {0, 43200, 86399}]

DateInit ==
    /\ ClientInit
    /\ MainIdle
    /\ NotifierIdle
    /\ arg \in Clocks
    /\ res = <<>>

\* One call of get_target_date_range(); strftime("%Y-%m-%d") keeps the day.
CallGetTargetDateRange ==
    /\ res = <<>>
    /\ res' = <<GetTargetDateRange(arg.day)>>
    /\ UNCHANGED <<arg, clientVars, mainVars, notifyVars>>

DateNext == CallGetTargetDateRange

DateSpec == DateInit /\ [][DateNext]_vars

MainInit ==
    /\ ClientInit
    /\ PureIdle
    /\ NotifierIdle
    /\ m_pc = "start"
    /\ input \in MainInputs
    /\ start_date = None
    /\ end_date = None
    /\ agencies = <<>>
    /\ idx = 0
    /\ m_docs = <<>>
    /\ has_errors = FALSE
    /\ ret = <<>>
    /\ loaded = <<>>
    /\ fetched = <<>>
    /\ sends = <<>>

\* main up to the agency loop (main.py 97-141).
MainStartup ==
    /\ m_pc = "start"
    /\ start_date' = DateRange(input)[1]
    /\ end_date' = DateRange(input)[2]
    /\ loaded' = Startup(input).loaded
    /\ agencies' = Startup(input).agencies
    /\ ret' = Startup(input).ret
    /\ m_pc' = IF Startup(input).ret = <<>> THEN "loop" ELSE "done"
    /\ idx' = 1
    /\ has_errors' = FALSE
    /\ UNCHANGED <<input, m_docs, fetched, sends, clientVars, pureVars,
                   notifyVars>>

\* The fetch_documents call of main.py 146-148 and how it ended.
FetchCall(outcome, docs) ==
    [agency |-> agencies[idx], start |-> start_date, end |-> end_date,
     outcome |-> outcome, docs |-> docs]

\* fetch_documents returns a list (main.py 146-149).
FetchReturns ==
    /\ m_pc = "loop"
    /\ idx <= Len(agencies)
    /\ \E n \in 0..MaxPageDocs :
        /\ m_docs' = [i \in 1..n |-> Document(i)]
        /\ fetched' = Append(fetched, FetchCall("returned", [i \in 1..n |-> Document(i)]))
    /\ m_pc' = "send"
    /\ UNCHANGED <<input, start_date, end_date, agencies, idx, has_errors, ret,
                   loaded, sends, clientVars, pureVars,
                   notifyVars>>

\* fetch_documents raises OpenGoKrError (main.py 154-157).
FetchRaises ==
    /\ m_pc = "loop"
    /\ idx <= Len(agencies)
    /\ fetched' = Append(fetched, FetchCall("raised", <<>>))
    /\ has_errors' = TRUE
    /\ idx' = idx + 1
    /\ UNCHANGED <<m_pc, input, start_date, end_date, agencies, m_docs, ret,
                   loaded, sends, clientVars, pureVars,
                   notifyVars>>

\* fetch_documents raises an exception that is no OpenGoKrError (the
\* ValueError of client.py 187): no except clause of main.py 154-162 takes it,
\* and it leaves main.
FetchCrashes ==
    /\ m_pc = "loop"
    /\ idx <= Len(agencies)
    /\ fetched' = Append(fetched, FetchCall("crashed", <<>>))
    /\ m_pc' = "aborted"
    /\ UNCHANGED <<input, start_date, end_date, agencies, idx, m_docs, has_errors,
                   ret, loaded, sends, clientVars, pureVars,
                   notifyVars>>

\* notifier.send_documents(agency.name, date_display, documents)
\* (main.py 151-152, 159-162): it returns, or raises TelegramError.
SendDocuments ==
    /\ m_pc = "send"
    /\ \E ok \in BOOLEAN :
        /\ sends' = Append(sends, [call |-> "send_documents",
                                   date |-> DateDisplay(start_date, end_date),
                                   payload |-> <<[agency |-> agencies[idx], docs |-> m_docs]>>,
                                   ok |-> ok])
        /\ has_errors' = (has_errors \/ ~ok)
    /\ idx' = idx + 1
    /\ m_pc' = "loop"
    /\ UNCHANGED <<input, start_date, end_date, agencies, m_docs, ret, loaded,
                   fetched, clientVars, pureVars,
                   notifyVars>>

\* The loop is over: return 1 if has_errors else 0 (main.py 164).
MainReturn ==
    /\ m_pc = "loop"
    /\ idx > Len(agencies)
    /\ ret' = <<IF has_errors THEN 1 ELSE 0>>
    /\ m_pc' = "done"
    /\ UNCHANGED <<input, start_date, end_date, agencies, idx, m_docs, has_errors,
                   loaded, fetched, sends, clientVars, pureVars,
                   notifyVars>>

MainNext ==
    \/ MainStartup
    \/ FetchReturns
    \/ FetchRaises
    \/ FetchCrashes
    \/ SendDocuments
    \/ MainReturn

MainSpec == MainInit /\ [][MainNext]_vars

(* ------------------------------------- send_documents / _send_message *)
\* What one sendMessage request can end in: a JSON object whose ok is true,
\* a JSON object whose ok is false or missing, a transport failure, a body
\* that is no JSON, or a JSON value that is no object.
Answers == {"ok", "not_ok", "transport", "badjson", "nondict"}

\* Mutant: an answer is taken as accepted whatever its ok says.
AcceptedAny(a) == a \in {"ok", "not_ok"}

\* "if not result.get("ok")" is false: _send_message returns True.
Accepted(a) == a = "ok"

\* The exceptions with which _send_message can end on answer a.  A body that
\* is no JSON makes response.json() raise an error that is a
\* RequestException in newer versions of requests and a plain ValueError in
\* older ones; result.get on a value that is no object is an AttributeError.
SendMessageRaises(a) ==
    CASE a = "not_ok" -> {"TelegramError: Telegram API error"}
      [] a = "transport" -> {"TelegramError: Network error"}
      [] a = "badjson" -> {"TelegramError: Network error", "ValueError"}
      [] a = "nondict" -> {"AttributeError"}
      [] OTHER -> {}

SendInit ==
    /\ ClientInit
    /\ MainIdle
    /\ arg \in Messages
    /\ res = <<>>
    /\ NotifierIdle

\* send_documents / send_multi_agency_documents up to the loop
\* (notifier.py 182-183, 205-206), arg being the formatted message.
SendCall ==
    /\ n_pc = "idle"
    /\ n_chunks' = SplitMessage(arg)
    /\ n_pc' = "sending"
    /\ UNCHANGED <<posted, n_ret, n_error, clientVars, pureVars, mainVars>>

\* One turn of "for chunk in chunks: self._send_message(chunk)".
SendMessage ==
    /\ n_pc = "sending"
    /\ Len(posted) < Len(n_chunks)
    /\ \E a \in Answers :
        /\ posted' = Append(posted, [text |-> n_chunks[Len(posted) + 1], answer |-> a])
        /\ IF Accepted(a)
           THEN UNCHANGED <<n_pc, n_error>>
           ELSE /\ n_pc' = "raised"
                /\ n_error' \in SendMessageRaises(a)
    /\ UNCHANGED <<n_chunks, n_ret, clientVars, pureVars, mainVars>>

\* The loop is over: return True (notifier.py 188, 211).
SendReturns ==
    /\ n_pc = "sending"
    /\ Len(posted) = Len(n_chunks)
    /\ n_ret' = <<TRUE>>
    /\ n_pc' = "returned"
    /\ UNCHANGED <<n_chunks, posted, n_error, clientVars, pureVars, mainVars>>

SendNext ==
    \/ SendCall
    \/ SendMessage
    \/ SendReturns

SendSpec == SendInit /\ [][SendNext]_vars

(* ================================================================ claims *)
Ended == pc \in {"returned", "raised"}

\* viewPage of the latest document-list request of this call (0: none yet).
LastReqPage == IF reqPages = <<>> THEN 0 ELSE reqPages[Len(reqPages)]

\* Number of document-list requests of this call that asked for page p.
ReqsFor(p) == Cardinality({i \in DOMAIN reqPages : reqPages[i] = p})

\* The total a received page reports (nothing reported counts as zero).
Reported(r) == IF r.total.t = "int" THEN r.total.v ELSE 0

\* The page's rtnTotal is a count or missing, not a text that is no number.
Counted(r) == r.total.t # "text"

\* The documents a list of raw items stands for.
DocsOf(items) == [i \in 1..Len(items) |-> Document(items[i])]

NotFoundError == "XSRF-TOKEN not found in response cookies"

(* C1: within one fetch_documents call at most one token invalidation and   *)
(* re-acquisition happens over all pages: after one refresh a 401/403 on a  *)
(* later page is fatal at once.  The code allows one refresh per page.      *)
C1_OneRefreshPerCall == refreshes <= 1

(* C2, as stated: a 401/403 on the first document-list request is always    *)
(* followed by one re-acquisition and one retried request for page 1, and a *)
(* 401/403 on the retried request raises with no further acquisition.       *)
C2_FirstAuthAlwaysRetried ==
    /\ (reqPages = <<1>> /\ IsAuthFailure(lastDoc) /\ pc # "refresh")
          => (refreshes = 1 /\ pc = "request" /\ page = 1 /\ attempt = 1)
    /\ (reqPages = <<1, 1>> /\ IsAuthFailure(lastDoc))
          => (pc = "raised" /\ refreshes = 1)

(* C2, amended: a 401/403 on the first document-list request is followed by *)
(* exactly one token re-acquisition request; if that acquisition does not   *)
(* raise, page 1 is re-requested exactly once, otherwise the call raises    *)
(* without re-requesting; a 401/403 on the retried request raises the       *)
(* request error with no further token-acquisition request.                 *)
C2_FirstAuthRetriedOnce ==
    /\ (reqPages = <<1>> /\ IsAuthFailure(lastDoc))
          => \/ pc = "refresh" /\ refreshes = 0 /\ xsrf_token = None
             \/ /\ pc = "request" /\ page = 1 /\ attempt = 1
                /\ refreshes = 1 /\ lastAcq.ok
             \/ pc = "raised" /\ refreshes = 1 /\ ~lastAcq.ok /\ error # "HTTP error"
    /\ (reqPages = <<1, 1>> /\ IsAuthFailure(lastDoc))
          => (pc = "raised" /\ error = "HTTP error" /\ refreshes = 1)
    /\ ReqsFor(1) <= 2

C2_Witness ==
    /\ reqPages = <<1, 1>>
    /\ IsAuthFailure(lastDoc)
    /\ pc = "raised"
    /\ refreshes = 1

(* C3: on a client whose first token acquisition succeeded and whose        *)
(* document-list requests were never answered 401/403, exactly one          *)
(* token-acquisition request has been sent, however many calls were made.   *)
C3_TokenReuse == (firstAcq = "ok" /\ ~authSeen) => tokenReqs = 1

C3_Witness ==
    /\ calls = MaxCalls
    /\ calls >= 2
    /\ pc = "returned"
    /\ firstAcq = "ok"
    /\ ~authSeen
    /\ tokenReqs = 1

(* C4, as stated: the documents a call returns never number more than the   *)
(* total the server reported.                                               *)
C4_AtMostReportedTotal ==
    (pc = "returned" /\ lastDoc.kind = "ok")
        => Len(all_documents) <= Reported(lastDoc)

(* C4, amended: every page after which a further page is requested left the *)
(* number of accumulated documents strictly below the total that page       *)
(* reported; the last page is appended whole, so the number returned can    *)
(* exceed the reported total.                                               *)
C4_BelowTotalWhileFetching ==
    (lastDoc.kind = "ok" /\ pc = "request")
        => /\ lastDoc.total.t = "int"
           /\ Len(all_documents) < lastDoc.total.v
           /\ Len(served) < lastDoc.total.v

C4_Witness ==
    /\ lastDoc.kind = "ok"
    /\ pc = "request"
    /\ page = 2
    /\ Len(all_documents) = 2
    /\ lastDoc.total.v = 3

(* C5: the result of a call that returns is the concatenation, in request   *)
(* order, of the document lists of the pages received; a request answered   *)
(* 401/403 and retried contributes nothing.                                 *)
C5_ResultIsConcatenation ==
    pc = "returned" => all_documents = DocsOf(served)

C5_Witness ==
    /\ pc = "returned"
    /\ page = 2
    /\ refreshes >= 1
    /\ Len(all_documents) >= 3
    /\ all_documents = DocsOf(served)

(* C6: a page whose document list is empty or absent ends the fetch after   *)
(* that request whatever total it reports: it is normalized to ([], 0), no  *)
(* further page is requested, and when it answers the first request of the  *)
(* call the result is [] after exactly one document-list request.           *)
C6_EmptyPageEndsFetch ==
    (lastDoc.kind = "ok" /\ lastDoc.list = <<>>)
        => /\ pc = "returned"
           /\ documents = <<>>
           /\ total_count = 0
           /\ (Len(reqPages) = 1 => all_documents = <<>>)

C6_Witness ==
    /\ lastDoc.kind = "ok"
    /\ ~lastDoc.hasList
    /\ lastDoc.total = [t |-> "int", v |-> PAGE_SIZE]
    /\ reqPages = <<1>>
    /\ pc = "returned"
    /\ all_documents = <<>>

(* C7, as stated: a first page that reports a total smaller than the page   *)
(* size ends the fetch; page 2 is never requested.                          *)
C7_ShortTotalEndsFetch ==
    (LastReqPage = 1 /\ lastDoc.kind = "ok" /\ Counted(lastDoc)
       /\ Reported(lastDoc) < PAGE_SIZE)
        => pc = "returned"

(* C7, amended: when the first page reports a total T smaller than the page *)
(* size, the fetch ends after page 1 exactly when that page is empty or     *)
(* holds at least T documents; when it holds at least one but fewer than T  *)
(* documents, page 2 is requested.                                          *)
C7_ShortTotalStopRule ==
    (LastReqPage = 1 /\ lastDoc.kind = "ok" /\ Counted(lastDoc)
       /\ Reported(lastDoc) < PAGE_SIZE)
        => IF lastDoc.list # <<>> /\ Len(lastDoc.list) < Reported(lastDoc)
           THEN pc = "request" /\ page = 2 /\ attempt = 0
           ELSE pc = "returned" /\ page = 1

C7_Witness ==
    /\ LastReqPage = 1
    /\ lastDoc.kind = "ok"
    /\ Reported(lastDoc) = 2
    /\ Len(lastDoc.list) = 1
    /\ pc = "request"
    /\ page = 2

(* C8, as stated: a first page that reports a total of zero makes the call  *)
(* return the empty list with no second request, whatever its list holds.   *)
C8_ZeroTotalReturnsEmpty ==
    (LastReqPage = 1 /\ lastDoc.kind = "ok" /\ lastDoc.total = [t |-> "int", v |-> 0])
        => (pc = "returned" /\ all_documents = <<>>)

(* C8, amended: a first page that reports a total of zero ends the fetch    *)
(* with no further document-list request, and the call returns exactly that *)
(* page's documents: the empty list only when the page's list is empty.     *)
C8_ZeroTotalReturnsPage ==
    (LastReqPage = 1 /\ lastDoc.kind = "ok" /\ lastDoc.total = [t |-> "int", v |-> 0])
        => /\ pc = "returned"
           /\ page = 1
           /\ all_documents = DocsOf(lastDoc.list)

C8_Witness ==
    /\ LastReqPage = 1
    /\ lastDoc.kind = "ok"
    /\ lastDoc.total = [t |-> "int", v |-> 0]
    /\ Len(lastDoc.list) = MaxPageDocs
    /\ pc = "returned"
    /\ Len(all_documents) = MaxPageDocs

(* C9: when the token endpoint answers the call's first ensure with a 2xx   *)
(* reply that carries no XSRF-TOKEN cookie, the call raises the token       *)
(* error, the cached token stays unset and no document-list request is      *)
(* sent.  The code reads the session's jar, which may hold an older cookie. *)
C9_NoCookieRaisesBeforeRequests ==
    (ensureResp.kind = "ok" /\ ensureResp.cookie = None)
        => /\ pc = "raised"
           /\ error = NotFoundError
           /\ xsrf_token = None
           /\ reqPages = <<>>

(* C10: every token acquisition whose reply delivers no cookie fails, and   *)
(* the token cached after a successful acquisition is the value that reply  *)
(* delivered.  After an invalidation the code re-caches the stale cookie.   *)
C10_TokenIsTheOneDelivered ==
    /\ lastAcq.resp.cookie = None => ~lastAcq.ok
    /\ (lastAcq.ok /\ xsrf_token # None) => xsrf_token = lastAcq.resp.cookie

\* A document-list answer r, arriving on attempt att, that is a failure other
\* than a 401/403 with a retry left.
FatalAnswer(r, att) ==
    /\ r.kind \notin {"ok", "none"}
    /\ ~(r.kind = "http" /\ r.status \in {401, 403} /\ att < max_retries)

(* C11: a document-list request that fails for any reason other than a      *)
(* 401/403 with a retry left makes the call raise the matching error at     *)
(* once, with no token acquisition; after that the call sends no request of *)
(* any kind (no retry, no next page) and returns nothing, whatever it had   *)
(* accumulated.                                                             *)
C11_FailureIsFatal ==
    [][/\ (Len(reqPages') = Len(reqPages) + 1 /\ FatalAnswer(lastDoc', attempt))
          => /\ pc' = "raised"
             /\ error' = RequestError(lastDoc')
             /\ tokenReqs' = tokenReqs
       /\ (pc = "raised" /\ calls' = calls)
          => UNCHANGED <<pc, reqPages, tokenReqs, lastDoc>>]_vars

C11_Witness ==
    /\ pc = "raised"
    /\ reqPages = <<1, 2>>
    /\ lastDoc.kind = "timeout"
    /\ error = "Request timeout"
    /\ all_documents # <<>>

\* The run of main is over: main returned, or an exception left it.
RunEnded == m_pc \in {"done", "aborted"}

\* An environment variable that is absent or empty.
CredentialAbsent(x) == x = None \/ x = ""

\* The configuration file was found and read.
ConfigLoaded == loaded # <<>> /\ PathExists(input, loaded[1])

\* The run got as far as the agency loop.
ReachedLoop ==
    /\ m_pc # "start"
    /\ agencies # <<>>
    /\ ~CredentialAbsent(input.bot_token)
    /\ ~CredentialAbsent(input.chat_id)

\* Every fetch and every send made so far succeeded.
AllSucceeded ==
    /\ \A i \in DOMAIN fetched : fetched[i].outcome = "returned"
    /\ \A j \in DOMAIN sends : sends[j].ok

\* (agency, documents) of the agencies whose fetch returned, in call order.
SuccessPayload ==
    LET good == SelectSeq(fetched, LAMBDA f : f.outcome = "returned")
    IN  [i \in 1..Len(good) |-> [agency |-> good[i].agency, docs |-> good[i].docs]]

\* main returned 1 and made no fetch_documents call and no notifier call.
FailedAtStartup ==
    /\ m_pc = "done"
    /\ ret = <<1>>
    /\ fetched = <<>>
    /\ sends = <<>>

(* C12: in a run over the agencies a1..an every agency is fetched exactly   *)
(* once, in configuration order, whatever happens to the others: every      *)
(* error of a fetch is caught per agency and the run goes on to return.     *)
(* The code lets the ValueError of _parse_response (see C20) leave main.    *)
C12_EveryAgencyFetchedOnce ==
    (RunEnded /\ ReachedLoop)
        => /\ m_pc = "done"
           /\ [i \in 1..Len(fetched) |-> fetched[i].agency] = agencies

(* C13: a run that reaches the agency loop returns 0 exactly when every     *)
(* fetch and every send succeeded, and returns 1 when any of them failed.   *)
(* A fetch that fails with the ValueError of C20 makes main return nothing. *)
C13_ExitCodeTellsFailure ==
    (RunEnded /\ ReachedLoop)
        => ret = IF AllSucceeded THEN <<0>> ELSE <<1>>

(* C14: after all agencies main makes exactly one notifier call, a          *)
(* send_multi_agency_documents whose payload lists the agencies whose fetch *)
(* succeeded, in configuration order.  The code calls send_documents once   *)
(* per fetched agency inside the loop.                                      *)
C14_OneConsolidatedNotification ==
    (m_pc = "done" /\ ReachedLoop)
        => /\ Len(sends) = 1
           /\ sends[1].call = "send_multi_agency_documents"
           /\ sends[1].payload = SuccessPayload

(* C15: when every agency's fetch succeeds with zero documents, main sends  *)
(* no notification and returns 0.  The code sends one message per agency.   *)
C15_NothingFoundNothingSent ==
    (/\ m_pc = "done"
     /\ ReachedLoop
     /\ \A i \in DOMAIN fetched :
            fetched[i].outcome = "returned" /\ fetched[i].docs = <<>>)
        => (sends = <<>> /\ ret = <<0>>)

(* C16: an explicit start date later than the explicit end date makes main  *)
(* return 1 without loading agencies, fetching or notifying.  The code      *)
(* never compares the two dates.                                            *)
C16_InvertedRangeRejected ==
    (/\ m_pc # "start"
     /\ input.start_arg # NoArg
     /\ input.end_arg # NoArg
     /\ input.start_arg[1] > input.end_arg[1])
        => (FailedAtStartup /\ loaded = <<>>)

(* C17: a configuration that loads but lists no agency makes the run a      *)
(* no-op: main returns 0 and makes no fetch and no notifier call, so no     *)
(* token, document-list or notification request is issued.                  *)
C17_EmptyListIsNoOp ==
    (m_pc # "start" /\ ConfigLoaded /\ input.n_agencies = 0)
        => /\ m_pc = "done"
           /\ ret = <<0>>
           /\ fetched = <<>>
           /\ sends = <<>>

C17_Witness ==
    /\ m_pc = "done"
    /\ ConfigLoaded
    /\ input.n_agencies = 0
    /\ input.bot_token = None
    /\ ret = <<0>>
    /\ fetched = <<>>
    /\ sends = <<>>

C19_MissingConfigIsFatal ==
    m_pc # "start"
        => /\ (input.config_arg /\ ~input.arg_exists)
                => /\ LoadAgencies(input, "arg").raises
                   /\ loaded = <<"arg">>
                   /\ FailedAtStartup
           /\ (~input.config_arg /\ ~input.script_exists /\ ~input.cwd_exists)
                => /\ FindConfigPath(input) = <<>>
                   /\ loaded = <<>>
                   /\ FailedAtStartup
           /\ (~input.config_arg /\ input.script_exists /\ input.cwd_exists)
                => loaded = <<"script">>

C19_Witness ==
    /\ m_pc = "done"
    /\ ~input.config_arg
    /\ ~input.script_exists
    /\ ~input.cwd_exists
    /\ input.n_agencies > 0
    /\ input.bot_token = "set"
    /\ input.chat_id = "set"
    /\ ret = <<1>>
    /\ loaded = <<>>
    /\ fetched = <<>>

(* C20: for every value of rtnTotal (integer, numeric string, null, empty   *)
(* string, non-numeric string, negative number) normalization does not      *)
(* fail and its total count is a non-negative integer; a null, empty or     *)
(* unparseable value yields 0.  The code raises ValueError on a non-numeric *)
(* string and keeps a negative number negative.                             *)
C20_TotalIsNonNegative ==
    res # <<>>
        => /\ ~res[1].raises
           /\ res[1].total_count \in Nat
           /\ arg.total.t \in {"null", "empty", "text"} => res[1].total_count = 0

\* A document-list answer with status 401 or 403.
AuthStatus(r) == r.kind = "http" /\ r.status \in {401, 403}

(* C21: a page whose JSON envelope has neither rtnList nor rtnTotal makes    *)
(* fetch_documents fail with the response-parse error instead of returning. *)
(* The code normalizes such a page to ([], 0) and returns.                  *)
C21_BareEnvelopeRaises ==
    (lastDoc.kind = "ok" /\ ~lastDoc.hasList /\ lastDoc.total.t = "absent")
        => (pc = "raised" /\ error = "Failed to parse JSON response")

(* C27: every call ensures the token once before the page loop: with a      *)
(* cached token no acquisition request is made, without one exactly one is  *)
(* made, and it precedes the first document-list request; a document-list   *)
(* request makes none, and any later acquisition follows a 401/403 answer,  *)
(* so without 401/403 acquisitions do not grow with the pages.              *)
C27_TokenEnsuredOncePerCall ==
    [][/\ (pc = "ensure" /\ pc' # "ensure")
          => /\ tokenReqs' = tokenReqs + (IF xsrf_token = None THEN 1 ELSE 0)
             /\ reqPages = <<>>
             /\ reqPages' = <<>>
       /\ tokenReqs' # tokenReqs
          => /\ tokenReqs' = tokenReqs + 1
             /\ pc = "ensure" \/ (pc = "refresh" /\ AuthStatus(lastDoc))
       /\ Len(reqPages') = Len(reqPages) + 1
          => (tokenReqs' = tokenReqs /\ pc = "request")]_vars

C27_Witness ==
    /\ calls = 1
    /\ reqPages = <<1, 2>>
    /\ ensureResp.kind = "ok"
    /\ tokenReqs = 1
    /\ refreshes = 0
    /\ pc = "returned"

(* C28: the page numbers of the document-list requests of one call start at *)
(* 1 and never skip or go back: a request repeats the previous page number  *)
(* only after a 401/403 answer, and carries the previous number plus one    *)
(* only after a page that was received and did not fire the stop rule.      *)
C28_PagesInSequence ==
    [][Len(reqPages') = Len(reqPages) + 1
          => IF reqPages = <<>>
             THEN reqPages' = <<1>>
             ELSE \/ /\ reqPages'[Len(reqPages')] = LastReqPage
                     /\ AuthStatus(lastDoc)
                  \/ /\ reqPages'[Len(reqPages')] = LastReqPage + 1
                     /\ lastDoc.kind = "ok"
                     /\ documents # <<>>
                     /\ Len(all_documents) < total_count]_vars

C28_Witness ==
    /\ reqPages = <<1, 1, 2>>
    /\ lastDoc.kind = "ok"
    /\ pc = "returned"

\* The string under a key of a raw item, "" when the key is absent.
Field(item, key) == IF item[key] = <<>> THEN <<>> ELSE item[key][1]

(* C22: normalizing a non-empty raw item list yields exactly one Document   *)
(* per item, in the same order, with every absent key replaced by the empty *)
(* string (an absent timestamp gives an empty date, an absent URL key an    *)
(* empty url), and it does not fail on a missing field: the only failure is *)
(* the one of a non-numeric rtnTotal.                                       *)
C22_OneDocumentPerItem ==
    res # <<>>
        => /\ res[1].raises => arg.total.t = "text"
           /\ Len(res[1].documents) = Len(arg.list)
           /\ \A i \in DOMAIN arg.list :
                LET item == arg.list[i]
                    doc == res[1].documents[i]
                IN  /\ doc.title = IF item.INFO_SJ = <<>> THEN <<>> ELSE item.INFO_SJ[1]
                    /\ doc.agency_name =
                         IF item.PROC_INSTT_NM = <<>> THEN <<>> ELSE item.PROC_INSTT_NM[1]
                    /\ item.PRDCTN_DT = <<>> => doc.date = <<>>
                    /\ (\/ item.PRDCTN_DT = <<>>
                        \/ item.PRDCTN_INSTT_REGIST_NO = <<>>
                        \/ item.INSTT_SE_CD = <<>>) => doc.url = <<>>

C22_Witness ==
    /\ res # <<>>
    /\ ~res[1].raises
    /\ Len(arg.list) >= 2
    /\ arg.list[1].INFO_SJ = <<>>
    /\ arg.list[1].PRDCTN_DT = <<>>
    /\ arg.list[2].INFO_SJ # <<>>
    /\ Len(res[1].documents) = Len(arg.list)
    /\ res[1].documents[1].title = <<>>
    /\ res[1].documents[2].title = <<"T">>

(* C23: a document's url is non-empty exactly when the registration number, *)
(* the production timestamp and the institution-type code of its raw record *)
(* are all non-empty, and then it carries the three values under the query  *)
(* parameters prdnNstRgstNo, prdnDt and nstSeCd.                            *)
C23_UrlIffAllKeys ==
    res # <<>>
        => \A i \in DOMAIN arg.list :
             LET reg == Field(arg.list[i], "PRDCTN_INSTT_REGIST_NO")
                 dt == Field(arg.list[i], "PRDCTN_DT")
                 se == Field(arg.list[i], "INSTT_SE_CD")
                 url == res[1].documents[i].url
             IN  /\ url # <<>> <=> (reg # <<>> /\ dt # <<>> /\ se # <<>>)
                 /\ url # <<>>
                      => url = <<DETAIL_URL_BASE, "?", "prdnNstRgstNo", "=">> \o reg
                                 \o <<"&", "prdnDt", "=">> \o dt
                                 \o <<"&", "nstSeCd", "=">> \o se

C23_Witness ==
    /\ res # <<>>
    /\ arg.list[1].PRDCTN_DT = <<TS7>>
    /\ res[1].documents[1].date = <<>>
    /\ res[1].documents[1].url =
         <<DETAIL_URL_BASE, "?", "prdnNstRgstNo", "=", "R", "&", "prdnDt", "=">>
           \o TS7 \o <<"&", "nstSeCd", "=", "S">>

(* C24: a document's date is the first 8 characters of the raw timestamp    *)
(* rendered YYYY-MM-DD ("20251227120000" gives "2025-12-27"); a timestamp   *)
(* shorter than 8 characters, or absent, gives the empty date and           *)
(* normalization still yields the document.                                 *)
C24_DateFromTimestamp ==
    res # <<>>
        => /\ Len(res[1].documents) = Len(arg.list)
           /\ \A i \in DOMAIN arg.list :
                LET ts == Field(arg.list[i], "PRDCTN_DT")
                    date == res[1].documents[i].date
                IN  /\ Len(ts) < 8 => date = <<>>
                    /\ Len(ts) >= 8
                         => /\ Len(date) = 10
                            /\ SelectSeq(date, LAMBDA c : c # "-") = SubSeq(ts, 1, 8)
                            /\ date[5] = "-"
                            /\ date[8] = "-"
                    /\ ts = TS14
                         => date = <<"2", "0", "2", "5", "-", "1", "2", "-", "2", "7">>

C24_Witness ==
    /\ res # <<>>
    /\ arg.list[1].PRDCTN_DT = <<TS14>>
    /\ res[1].documents[1].date = <<"2", "0", "2", "5", "-", "1", "2", "-", "2", "7">>

(* C25: every chunk _split_message produces is at most MAX_MESSAGE_LENGTH   *)
(* characters long, for every message, also one that holds a single line    *)
(* longer than the limit.  The code never breaks a line: a line longer than *)
(* the limit becomes a chunk of its own length.                             *)
C25_ChunksWithinLimit ==
    res # <<>>
        => \A i \in DOMAIN res[1] : TextLen(res[1][i]) <= MAX_MESSAGE_LENGTH

(* C26: with no dates given the window depends only on the weekday of      *)
(* today: on a Monday it is (today - 3, today - 1), the previous Friday     *)
(* through Sunday; on every other weekday start and end are both           *)
(* today - 1.  Always start <= end.                                         *)
C26_DefaultWindow ==
    res # <<>>
        => /\ arg.day % 7 = 0
                => /\ res[1] = <<arg.day - 3, arg.day - 1>>
                   /\ res[1][1] % 7 = 4
                   /\ res[1][2] % 7 = 6
           /\ arg.day % 7 # 0 => res[1] = <<arg.day - 1, arg.day - 1>>
           /\ res[1][1] <= res[1][2]

C26_Witness ==
    /\ res # <<>>
    /\ arg.day % 7 = 0
    /\ arg.time = 86399
    /\ res[1] = <<arg.day - 3, arg.day - 1>>

\* YYYY-MM-DD without its two separators.
Compact(date) == SubSeq(date, 1, 4) \o SubSeq(date, 6, 7) \o SubSeq(date, 9, 10)

(* C29: across the document-list requests of one call only the page number  *)
(* changes: every request carries the caller's agency code and name, the    *)
(* caller's dates without the '-' separators as startDate and endDate       *)
(* (endDate equal to startDate when end_date is omitted), rowPage 10,       *)
(* eduYn "N" and sort "s".                                                  *)
C29_OnlyThePageChanges ==
    /\ \A i \in DOMAIN res :
        /\ res[i].insttCd = arg.agency_code
        /\ res[i].insttCdNm = arg.agency_name
        /\ res[i].startDate = Compact(arg.start_date)
        /\ res[i].endDate = Compact(IF arg.end_date = <<>>
                                    THEN arg.start_date ELSE arg.end_date[1])
        /\ res[i].rowPage = "10"
        /\ res[i].eduYn = "N"
        /\ res[i].sort = "s"
    /\ \A i, j \in DOMAIN res : [res[i] EXCEPT !.viewPage = res[j].viewPage] = res[j]

C29_Witness ==
    /\ Len(res) >= 2
    /\ arg.start_date = D27
    /\ arg.end_date = <<>>
    /\ res[1].viewPage = "1"
    /\ res[2].viewPage = "2"
    /\ res[2].startDate = <<"2", "0", "2", "5", "1", "2", "2", "7">>
    /\ res[2].endDate = <<"2", "0", "2", "5", "1", "2", "2", "7">>

(* C30: for every valid JSON body the mapping handed to the normalizer is  *)
(* the value under result when the body holds a nested result mapping, and  *)
(* the body itself in every other case (no result key, or a result that is  *)
(* null or no mapping), and the choice never makes the call fail.  The code *)
(* takes whatever is under result and fails on it with AttributeError, as   *)
(* it does on a body that is no mapping.                                    *)
C30_UnwrapsOnlyMappings ==
    res # <<>>
        => /\ ~res[1].attr_error
           /\ IF /\ arg.type = "object"
                 /\ arg.result # <<>>
                 /\ arg.result[1].type = "object"
              THEN res[1].source = "result" /\ res[1].value = arg.result[1]
              ELSE /\ res[1].source = "body"
                   /\ res[1].value = [type |-> arg.type, data |-> arg.data]

\* The request ran into the fixed timeout, while connecting or while reading.
TimedOut(r) == r.kind \in {"timeout", "connect_timeout"}

(* C31: every document-list request that exceeds the timeout, while          *)
(* connecting or while reading the answer, ends the call with the error      *)
(* "Request timeout", never with the connection error, and is not retried.   *)
(* The code reports a timeout while connecting as a connection error.        *)
C31_TimeoutIsTimeoutError ==
    TimedOut(lastDoc) => (pc = "raised" /\ error = "Request timeout")

(* ------------------------- fetch_documents against a server whose total *)
(* ------------------------- is the same on every page                    *)
\* arg holds the rtnTotal the server writes into the body of every page.
FixedTotalInit ==
    /\ ClientInit
    /\ MainIdle
    /\ NotifierIdle
    /\ arg \in RawTotals
    /\ res = <<>>

\* The answer the step records, if it is a page, carries that total.
SameTotal == lastDoc'.kind = "ok" => lastDoc'.total = arg

FixedTotalNext ==
    \/ FetchDocuments
    \/ EnsureCached
    \/ EnsureAcquire
    \/ PageReceived /\ SameTotal
    \/ ParseCrashes /\ SameTotal
    \/ AuthFailureRetry
    \/ RefreshToken
    \/ RequestFails

FixedTotalSpec == FixedTotalInit /\ [][FixedTotalNext]_vars

\* The pages of this call that arrived with a JSON body so far.
ReceivedPages == IF pc \in {"returned", "crashed"} THEN page ELSE page - 1

\* max(1, T) for the total T the server reports; no count reads as zero.
PageBudget(raw) == IF Reported([total |-> raw]) > 1 THEN Reported([total |-> raw]) ELSE 1

(* C32: against a server that reports the same total T on every page, a      *)
(* fetch_documents call receives at most max(1, T) pages and, each page      *)
(* being asked for at most twice, sends at most twice as many document-list  *)
(* requests, so it ends; every page it goes on from has added a document.    *)
C32_PagesBoundedByTotal ==
    /\ ReceivedPages <= PageBudget(arg)
    /\ Len(reqPages) <= (max_retries + 1) * PageBudget(arg)
    /\ pc \in {"request", "refresh"} => Len(all_documents) >= page - 1

C32_Witness ==
    /\ pc = "returned"
    /\ arg = [t |-> "int", v |-> 2]
    /\ page = 2
    /\ ReceivedPages = PageBudget(arg)
    /\ Len(all_documents) = 2

(* C33: whenever a token is cached the session's x-xsrf-token header holds   *)
(* that value, and a document-list request is only sent with a token cached, *)
(* so every such request carries the cached token; the request retried after *)
(* a refresh carries the token that refresh cached.                          *)
C33_HeaderIsCachedToken ==
    /\ xsrf_token # None => header = xsrf_token
    /\ pc = "request" => (xsrf_token # None /\ header = xsrf_token)

C33_Witness ==
    /\ pc = "request"
    /\ refreshes = 1
    /\ attempt = 1
    /\ ensureResp = [kind |-> "ok", cookie |-> "tokA"]
    /\ lastAcq.resp.cookie = "tokB"
    /\ xsrf_token = "tokB"
    /\ header = "tokB"

\* The latest token acquisition failed.
AcquisitionFailed == tokenReqs > 0 /\ ~lastAcq.ok

(* C34: when the re-acquisition that follows a 401/403 fails, the call       *)
(* raises the acquisition error with the 401/403 as its last document-list   *)
(* answer (the page is not asked for again) and the cached token is unset;   *)
(* it was unset before the re-acquisition started and stays so until the     *)
(* next call's ensure, and no document-list request is sent before an        *)
(* acquisition has succeeded again.                                          *)
C34_FailedRefreshLeavesNoToken ==
    /\ pc = "refresh" => xsrf_token = None
    /\ AcquisitionFailed => (xsrf_token = None /\ pc \in {"raised", "ensure"})
    /\ (AcquisitionFailed /\ pc = "raised" /\ refreshes > 0)
          => /\ AuthStatus(lastDoc)
             /\ ReqsFor(LastReqPage) = 1
             /\ error \in {NotFoundError, "Failed to acquire XSRF token"}
    /\ pc = "request" => lastAcq.ok

\* The call after a failed re-acquisition has acquired a token afresh and
\* stands before its first document-list request.
C34_Witness ==
    /\ calls = 2
    /\ pc = "request"
    /\ reqPages = <<>>
    /\ authSeen
    /\ tokenReqs = 3
    /\ ensureResp.kind = "ok"
    /\ xsrf_token # None

\* A document-list answer that is a failure but no 401/403.
OtherFailure(r) == r.kind \notin {"ok", "none"} /\ ~AuthStatus(r)

(* C35: a document-list request that fails for a reason other than 401/403   *)
(* ends the call with the cached token, the header and the cookie jar as     *)
(* they were, the token still set; starting the next call changes none of    *)
(* them, and a call that finds a token cached goes to its first              *)
(* document-list request without an acquisition and with its one retry left. *)
C35_OtherFailureKeepsToken ==
    [][/\ (Len(reqPages') = Len(reqPages) + 1 /\ OtherFailure(lastDoc'))
          => /\ pc' = "raised"
             /\ xsrf_token # None
             /\ UNCHANGED <<xsrf_token, header, cookies, tokenReqs>>
       /\ calls' # calls
          => /\ UNCHANGED <<xsrf_token, header, cookies, tokenReqs>>
             /\ pc' = "ensure"
       /\ (pc = "ensure" /\ xsrf_token # None)
          => /\ UNCHANGED <<xsrf_token, header, cookies, tokenReqs>>
             /\ pc' = "request"
             /\ reqPages' = <<>>
             /\ max_retries - attempt' = 1]_vars

\* The second call on the client reused the token and failed on a refused
\* connection; the token is the one acquired once.
C35_Witness ==
    /\ calls = 2
    /\ pc = "raised"
    /\ lastDoc.kind = "conn"
    /\ ensureResp = NoTok
    /\ tokenReqs = 1
    /\ ~authSeen
    /\ xsrf_token = "tokA"
    /\ header = "tokA"

\* The lines of a sequence of chunks, one chunk after the other.
RECURSIVE LinesOf(_)
LinesOf(chunks) == IF chunks = <<>> THEN <<>> ELSE chunks[1] \o LinesOf(Tail(chunks))

\* The lines that are not empty, in their order.
RECURSIVE NonBlank(_)
NonBlank(ls) ==
    IF ls = <<>> THEN <<>>
    ELSE IF ls[1] = 0 THEN NonBlank(Tail(ls))
    ELSE <<ls[1]>> \o NonBlank(Tail(ls))

\* The chunks of a longer message hold its non-empty lines, each once and
\* whole, in the order of the message.
LinesKept(message, chunks) == NonBlank(LinesOf(chunks)) = NonBlank(message)

(* C36: _split_message loses and reorders nothing: a message of at most      *)
(* MAX_MESSAGE_LENGTH characters comes back as the one unchanged chunk; of a *)
(* longer message every non-empty line is in exactly one chunk, whole, the   *)
(* lines in their order across the chunks, and no chunk is empty.  The code  *)
(* emits an empty chunk when the lines before an overflowing line are all    *)
(* empty.                                                                    *)
C36_SplitKeepsLines ==
    res # <<>>
        => IF TextLen(arg) <= MAX_MESSAGE_LENGTH
           THEN res[1] = <<arg>>
           ELSE /\ LinesKept(arg, res[1])
                /\ \A i \in DOMAIN res[1] : res[1][i] # <<>>

\* Sending failed as the claim has it: no transport, or an answer whose ok
\* is false.
SendFailure(a) == a \in {"transport", "not_ok"}

\* The latest sendMessage request (posted is not empty).
LastPosted == posted[Len(posted)]

(* C37: the chunks of a notification are sent one at a time in chunk order;  *)
(* when sending a chunk fails on the transport or with an answer whose ok is *)
(* false, TelegramError is raised and no later chunk is sent, while the      *)
(* chunks sent before stay sent; the send returns True only when every chunk *)
(* was sent and accepted.                                                    *)
C37_ChunksSentInOrder ==
    [][/\ Len(posted') <= Len(n_chunks')
       /\ \A i \in DOMAIN posted' :
            /\ posted'[i].text = n_chunks'[i]
            /\ i < Len(posted') => posted'[i].answer = "ok"
       /\ (posted' # <<>> /\ SendFailure(posted'[Len(posted')].answer))
            => (n_pc' = "raised" /\ n_error' \in {"TelegramError: Telegram API error",
                                                  "TelegramError: Network error"})
       /\ \/ posted' = posted
          \/ posted' = Append(posted, posted'[Len(posted')])
       /\ n_pc = "raised" => UNCHANGED <<posted, n_pc, n_ret>>
       /\ n_ret' # <<>>
            => /\ n_ret' = <<TRUE>>
               /\ Len(posted') = Len(n_chunks')
               /\ \A i \in DOMAIN posted' : posted'[i].answer = "ok"]_vars

\* The second of three chunks was refused: two requests made, no third.
C37_Witness ==
    /\ n_pc = "raised"
    /\ Len(n_chunks) = 3
    /\ Len(posted) = 2
    /\ posted[1].answer = "ok"
    /\ LastPosted.answer = "not_ok"
    /\ n_error = "TelegramError: Telegram API error"
    /\ n_ret = <<>>

====
